---- MODULE Spec2Model ----
(***************************************************************************)
(* A model of the sketch repository: the core domain library               *)
(* (sketch/core.py: SketchPad, Portfolio) and the external API handlers    *)
(* (sketch/api/main.py).                                                   *)
(*                                                                         *)
(* Python values are encoded as follows.                                   *)
(*   - an optional value (x or None) is a sequence of length 0 or 1:       *)
(*     <<>> is None, <<x>> is x;                                           *)
(*   - a dict that is iterated (Portfolio.sketchpads) is the sequence of   *)
(*     its items in insertion order, with pairwise distinct keys;          *)
(*   - a raised exception is the field err of an outcome record ("" when   *)
(*     the call returned);                                                 *)
(*   - identifiers (uuid strings) are the numbers 1..NumIds, ordered as    *)
(*     the strings are.                                                    *)
(***************************************************************************)
EXTENDS Integers, Sequences, FiniteSets

VARIABLES
    store,   \* server: the sketch-pad table, id -> optional row (username, document)
    resp,    \* server: the response of the request being answered, or idle
    pf,      \* library: the Portfolio under test (ordered dict of SketchPads)
    last,    \* library, history: id -> the SketchPad most recently given with it
    ret,     \* library: the outcome of the last call on pf, or idle
    data,    \* from_dict: the document handed to SketchPad.from_dict (round
             \* trip: the SketchPad that is serialized)
    out,     \* from_dict: the outcome of that call, or idle
    inflight, \* server: the upload requests being handled concurrently
    writer   \* server, history: id -> the request that wrote its row last

vars == <<store, resp, pf, last, ret, data, out, inflight, writer>>

---------------------------------------------------------------------------
(* Bounds and program constants *)

NumIds == 3            \* identifiers in play
MaxUpload == 2         \* SketchPads in one /upload_portfolio request, and in
                       \* the list a Portfolio is constructed from
MaxReq == 2            \* identifiers in one /get_approx_best_joins request

DefaultN == 5          \* closest_overlap(sketchpad, n=5)
TopJoins == 5          \* get_approx_best_joins: [:5]
PkPercent == 97        \* get_approx_pk_sketchpads: 0.97, as a percentage
uuid4 == 0             \* the identifier SketchPad.__init__ generates

Ids == 1..NumIds
Users == {"alice", "bob"}
Version == "0.0.1"     \* SketchPad.version
Versions == {Version, "0.0.2"}

None == <<>>
Some(x) == <<x>>
IsNone(o) == o = <<>>
Get(o) == o[1]

Min(a, b) == IF a <= b THEN a ELSE b
Range(s) == {s[i] : i \in DOMAIN s}

---------------------------------------------------------------------------
(* References and sketches: sketch/references.py and sketch/sketches.py    *)

ReferenceTypes == {"PandasDataframeColumn", "SqliteColumn"}

\* Reference.from_dict: dispatches on the discriminator tag, fails on an
\* unknown one.
Reference_from_dict(d) ==
    IF d.type \in ReferenceTypes
    THEN [err |-> "", ref |-> Some([cls |-> d.type, column |-> d.column])]
    ELSE [err |-> "KeyError", ref |-> None]

Reference_to_dict(r) == [type |-> r.cls, column |-> r.column]

SketchNames == {"MinHash", "HyperLogLog", "Rows"}

\* SketchBase.from_dict: registry lookup by type name, fails on an unknown one.
SketchBase_from_dict(s) ==
    IF s.name \in SketchNames
    THEN [err |-> "", sketch |-> Some([name |-> s.name, data |-> s.data])]
    ELSE [err |-> "KeyError", sketch |-> None]

Sketch_to_dict(s) == [name |-> s.name, data |-> s.data]

\* MinHash.jaccard: the number of positions where the two signatures agree
\* (over the common signature length, which is the same for every sketch).
RECURSIVE Agree(_, _)
Agree(a, b) ==
    IF a = <<>> \/ b = <<>> THEN 0
    ELSE (IF Head(a) = Head(b) THEN 1 ELSE 0) + Agree(Tail(a), Tail(b))

jaccard(a, b) == Agree(a, b)

\* HyperLogLog.count() and int(Rows): the data of these sketches is <<count>>.
count(d) == d[1]

---------------------------------------------------------------------------
(* SketchPad: sketch/core.py *)

SketchPad_init(reference, context) ==
    [version |-> Version,
     id |-> uuid4,
     metadata |-> [id |-> uuid4],
     reference |-> reference,
     context |-> context,
     sketches |-> <<>>]

get_sketch_by_name(sp, name) ==
    LET sketches == SelectSeq(sp.sketches, LAMBDA sk : sk.name = name)
    IN  IF Len(sketches) = 1 THEN Some(sketches[1]) ELSE None

get_sketchdata_by_name(sp, name) ==
    LET sketch == get_sketch_by_name(sp, name)
    IN  IF IsNone(sketch) THEN None ELSE Some(Get(sketch).data)

minhash_jaccard(self, other) ==
    LET self_minhash == get_sketchdata_by_name(self, "MinHash")
        other_minhash == get_sketchdata_by_name(other, "MinHash")
    IN  IF IsNone(self_minhash) \/ IsNone(other_minhash)
        THEN None
        ELSE Some(jaccard(Get(self_minhash), Get(other_minhash)))

\* A to_dict that leaves the context out.
to_dict_without_context(sp) ==
    [version |-> sp.version,
     metadata |-> sp.metadata,
     reference |-> Reference_to_dict(sp.reference),
     sketches |-> [i \in DOMAIN sp.sketches |-> Sketch_to_dict(sp.sketches[i])],
     context |-> <<>>]

to_dict(sp) ==
    [version |-> sp.version,
     metadata |-> sp.metadata,
     reference |-> Reference_to_dict(sp.reference),
     sketches |-> [i \in DOMAIN sp.sketches |-> Sketch_to_dict(sp.sketches[i])],
     context |-> sp.context]

\* [SketchBase.from_dict(s) for s in data["sketches"]]: stops at the first
\* sketch that fails.
RECURSIVE sketches_from_dicts(_)
sketches_from_dicts(ds) ==
    IF ds = <<>> THEN [err |-> "", sketches |-> <<>>, built |-> 0]
    ELSE LET h == SketchBase_from_dict(Head(ds))
         IN  IF h.err # "" THEN [err |-> h.err, sketches |-> <<>>, built |-> 0]
             ELSE LET t == sketches_from_dicts(Tail(ds))
                  IN  [err |-> t.err,
                       sketches |-> IF t.err = "" THEN <<Get(h.sketch)>> \o t.sketches
                                    ELSE <<>>,
                       built |-> 1 + t.built]

\* The outcome of SketchPad.from_dict: the exception (or ""), the SketchPad,
\* and the steps that ran: steps is the sequence of the statements executed,
\* built the number of sketches reconstructed.
FromDictFailure(err, steps, built) ==
    [err |-> err, sp |-> None, steps |-> steps, built |-> built]

\* The same without the assert statement: what is left of from_dict when
\* the version check is dropped.
from_dict_unchecked(d) ==
    LET r == Reference_from_dict(d.reference)
        sk == sketches_from_dicts(d.sketches)
    IN  IF r.err # ""
        THEN FromDictFailure(r.err, <<"reference">>, 0)
        ELSE IF sk.err # ""
        THEN FromDictFailure(sk.err, <<"reference", "init", "id",
                                       "metadata", "context", "sketches">>, sk.built)
        ELSE [err |-> "",
              sp |-> Some([SketchPad_init(Get(r.ref), None) EXCEPT
                              !.id = d.metadata.id,
                              !.metadata = d.metadata,
                              !.context = d.context,
                              !.sketches = sk.sketches]),
              steps |-> <<"reference", "init", "id", "metadata", "context", "sketches">>,
              built |-> sk.built]

from_dict(d) ==
    IF d.version # Version
    THEN FromDictFailure("AssertionError", <<"assert">>, 0)
    ELSE LET r == Reference_from_dict(d.reference)
             sk == sketches_from_dicts(d.sketches)
         IN  IF r.err # ""
             THEN FromDictFailure(r.err, <<"assert", "reference">>, 0)
             ELSE IF sk.err # ""
             THEN FromDictFailure(sk.err, <<"assert", "reference", "init", "id",
                                            "metadata", "context", "sketches">>, sk.built)
             ELSE [err |-> "",
                   sp |-> Some([SketchPad_init(Get(r.ref), None) EXCEPT
                                   !.id = d.metadata.id,
                                   !.metadata = d.metadata,
                                   !.context = d.context,
                                   !.sketches = sk.sketches]),
                   steps |-> <<"assert", "reference", "init", "id", "metadata",
                               "context", "sketches">>,
                   built |-> sk.built]

---------------------------------------------------------------------------
(* Portfolio: sketch/core.py *)

\* self.sketchpads[k] = v on a dict kept as the sequence of its items: an
\* existing key keeps its position, a new key goes last.
dict_set(d, k, v) ==
    IF \E i \in DOMAIN d : d[i].key = k
    THEN [i \in DOMAIN d |-> IF d[i].key = k THEN [key |-> k, sp |-> v] ELSE d[i]]
    ELSE Append(d, [key |-> k, sp |-> v])

\* self.sketchpads[k]
dict_get(d, k) ==
    LET hits == SelectSeq(d, LAMBDA e : e.key = k)
    IN  IF hits = <<>> THEN None ELSE Some(hits[1].sp)

keys(d) == {d[i].key : i \in DOMAIN d}
values(d) == [i \in DOMAIN d |-> d[i].sp]

\* An add that keeps the entry already stored under the identifier.
add_sketchpad_keep_first(self, sketchpad) ==
    IF sketchpad.id \in keys(self) THEN self
    ELSE Append(self, [key |-> sketchpad.id, sp |-> sketchpad])

\* An add that files the SketchPad under its position instead of its id.
add_sketchpad_by_position(self, sketchpad) ==
    dict_set(self, Len(self) + 1, sketchpad)

add_sketchpad(self, sketchpad) == dict_set(self, sketchpad.id, sketchpad)

\* {sp.id: sp for sp in (sketchpads or [])}
RECURSIVE dict_comprehension(_, _)
dict_comprehension(sketchpads, acc) ==
    IF sketchpads = <<>> THEN acc
    ELSE dict_comprehension(Tail(sketchpads),
                            dict_set(acc, Head(sketchpads).id, Head(sketchpads)))

Portfolio_init(sketchpads) == dict_comprehension(sketchpads, <<>>)

\* uq > 0.97 with the row count forgotten.
exceeds_without_rows(uq, rows) == 100 * uq > PkPercent

\* uq >= 0.97 * rows.
reaches_threshold(uq, rows) == 100 * uq >= PkPercent * rows

\* uq > 0.97 * rows. For integers the double 0.97 * rows is the exact product
\* whenever that product is an integer, so the comparison is the exact one.
exceeds_threshold(uq, rows) == 100 * uq > PkPercent * rows

RECURSIVE approx_pk_loop(_, _)
approx_pk_loop(sps, acc) ==
    IF sps = <<>> THEN [err |-> "", pf |-> acc]
    ELSE LET sketchpad == Head(sps)
             hll == get_sketchdata_by_name(sketchpad, "HyperLogLog")
             rws == get_sketchdata_by_name(sketchpad, "Rows")
         IN  IF IsNone(hll) THEN [err |-> "AttributeError", pf |-> <<>>]
             ELSE IF IsNone(rws) THEN [err |-> "TypeError", pf |-> <<>>]
             ELSE approx_pk_loop(Tail(sps),
                      IF exceeds_threshold(count(Get(hll)), count(Get(rws)))
                      THEN add_sketchpad(acc, sketchpad)
                      ELSE acc)

get_approx_pk_sketchpads(self) == approx_pk_loop(values(self), <<>>)

\* (score, id) < (score, id) on Python tuples: "T", "F", or "E" when the
\* scores differ and one of them is None (TypeError).
tuple_lt(a, b) ==
    IF a.score = b.score THEN (IF a.id < b.id THEN "T" ELSE "F")
    ELSE IF IsNone(a.score) \/ IsNone(b.score) THEN "E"
    ELSE IF Get(a.score) < Get(b.score) THEN "T" ELSE "F"

\* heapq._siftdown(heap, 0, pos) with newitem taken out of heap[pos];
\* positions are 0-based as in the code.
RECURSIVE siftdown(_, _, _)
siftdown(heap, pos, newitem) ==
    IF pos > 0
    THEN LET parentpos == (pos - 1) \div 2
             parent == heap[parentpos + 1]
             c == tuple_lt(newitem, parent)
         IN  IF c = "E" THEN [err |-> "TypeError", heap |-> heap]
             ELSE IF c = "T"
             THEN siftdown([heap EXCEPT ![pos + 1] = parent], parentpos, newitem)
             ELSE [err |-> "", heap |-> [heap EXCEPT ![pos + 1] = newitem]]
    ELSE [err |-> "", heap |-> [heap EXCEPT ![pos + 1] = newitem]]

heappush(heap, item) == siftdown(Append(heap, item), Len(heap), item)

\* sorted(it, key=score, reverse=True) for scores that are all numbers: a
\* stable sort, equal scores stay in their order.
RECURSIVE insert_desc(_, _)
insert_desc(sorted, x) ==
    IF sorted = <<>> THEN <<x>>
    ELSE IF Get(Head(sorted).score) >= Get(x.score)
    THEN <<Head(sorted)>> \o insert_desc(Tail(sorted), x)
    ELSE <<x>> \o sorted

RECURSIVE sorted_desc_loop(_, _)
sorted_desc_loop(it, acc) ==
    IF it = <<>> THEN acc
    ELSE sorted_desc_loop(Tail(it), insert_desc(acc, Head(it)))

sorted_desc(it) == sorted_desc_loop(it, <<>>)

any_none(it) == \E i \in DOMAIN it : IsNone(it[i].score)

\* sorted(it, key=score, reverse=True)[:n] for n >= 0: comparing None with
\* anything, None included, is a TypeError, and two or more elements are
\* always compared.
sorted_by_score(it, n) ==
    IF Len(it) >= 2 /\ any_none(it) THEN [err |-> "TypeError", top |-> <<>>]
    ELSE IF Len(it) <= 1 THEN [err |-> "", top |-> SubSeq(it, 1, Min(n, Len(it)))]
    ELSE [err |-> "", top |-> SubSeq(sorted_desc(it), 1, Min(n, Len(it)))]

\* heapq.nlargest(n, it, key=lambda x: x[0]): max() for n = 1, sorted()[:n]
\* when n >= len(it), a heap of n elements otherwise; the three agree on the
\* result and raise TypeError when a None key is compared.
nlargest(n, it) ==
    IF n = 1
    THEN (IF Len(it) <= 1 THEN [err |-> "", top |-> it]
          ELSE IF any_none(it) THEN [err |-> "TypeError", top |-> <<>>]
          ELSE [err |-> "", top |-> SubSeq(sorted_desc(it), 1, 1)])
    ELSE IF n >= Len(it) THEN sorted_by_score(it, n)
    ELSE IF n <= 0 THEN [err |-> "", top |-> <<>>]
    ELSE IF any_none(it) THEN [err |-> "TypeError", top |-> <<>>]
    ELSE [err |-> "", top |-> SubSeq(sorted_desc(it), 1, n)]

\* for sp in self.sketchpads.values(): heappush(scores, (score, sp.id))
RECURSIVE push_scores(_, _, _)
push_scores(sketchpad, sps, scores) ==
    IF sps = <<>> THEN [err |-> "", heap |-> scores]
    ELSE LET sp == Head(sps)
             score == minhash_jaccard(sketchpad, sp)
             pushed == heappush(scores, [score |-> score, id |-> sp.id])
         IN  IF pushed.err # "" THEN pushed
             ELSE push_scores(sketchpad, Tail(sps), pushed.heap)

closest_overlap(self, sketchpad, n) ==
    LET pushed == push_scores(sketchpad, values(self), <<>>)
        top_n == nlargest(n, pushed.heap)
    IN  IF pushed.err # "" THEN [err |-> pushed.err, pairs |-> <<>>]
        ELSE IF top_n.err # "" THEN [err |-> top_n.err, pairs |-> <<>>]
        ELSE IF \E i \in DOMAIN top_n.top : IsNone(dict_get(self, top_n.top[i].id))
        THEN [err |-> "KeyError", pairs |-> <<>>]
        ELSE [err |-> "",
              pairs |-> [i \in DOMAIN top_n.top |->
                           [score |-> top_n.top[i].score,
                            sp |-> Get(dict_get(self, top_n.top[i].id))]]]

---------------------------------------------------------------------------
(* Persistence layer: sketch/api/data.py *)

\* add_sketchpad(database, username, sketchpad): one row per identifier,
\* holding the owner and the full document; an existing row is overwritten.
data_add_sketchpad(st, username, sketchpad) ==
    [st EXCEPT ![sketchpad.metadata.id] =
        Some([username |-> username, document |-> sketchpad])]

owned(st, i, username) ==
    i \in DOMAIN st /\ ~IsNone(st[i]) /\ Get(st[i]).username = username

\* The SketchPads of the rows of username among the identifiers ids, in the
\* order of ids, each deserialized with SketchPad.from_dict.
RECURSIVE load_rows(_, _, _)
load_rows(st, ids, username) ==
    IF ids = <<>> THEN <<>>
    ELSE IF owned(st, Head(ids), username)
    THEN <<Get(from_dict(Get(st[Head(ids)]).document).sp)>>
             \o load_rows(st, Tail(ids), username)
    ELSE load_rows(st, Tail(ids), username)

\* get_sketchpads_by_id(database, ids, username): identifiers that are not
\* stored or not owned by username are skipped.
get_sketchpads_by_id(st, ids, username) == load_rows(st, ids, username)

\* get_portfolio(database, username): every row of username, as a Portfolio.
get_portfolio(st, username) ==
    Portfolio_init(load_rows(st, [i \in 1..Len(st) |-> i], username))

---------------------------------------------------------------------------
(* External API handlers: sketch/api/main.py *)

\* The handler returned: FastAPI answers 200 with the returned value.
ok_response(op, user, ids, body) ==
    [op |-> op, user |-> user, status |-> 200, ids |-> ids, failedAt |-> 0,
     err |-> "", body |-> body]

\* An exception that is no HTTPException left the handler: the application
\* answers 500 Internal Server Error. failedAt is the position of the payload
\* that SketchPad.from_dict refused (0 when the failure is not a payload's).
unhandled_exception(op, user, ids, failedAt, err) ==
    [op |-> op, user |-> user, status |-> 500, ids |-> ids, failedAt |-> failedAt,
     err |-> err, body |-> <<>>]

payload_ids(sketchpads) == [i \in DOMAIN sketchpads |-> sketchpads[i].metadata.id]

\* The position of the first payload that SketchPad.from_dict refuses, or 0.
first_refused(sketchpads) ==
    LET bad == {i \in DOMAIN sketchpads : from_dict(sketchpads[i]).err # ""}
    IN  IF bad = {} THEN 0 ELSE CHOOSE i \in bad : \A j \in bad : i <= j

RECURSIVE add_all(_, _, _)
add_all(st, username, sketchpads) ==
    IF sketchpads = <<>> THEN st
    ELSE add_all(data_add_sketchpad(st, username, Head(sketchpads)),
                 username, Tail(sketchpads))

upload_sketchpad(st, user, sketchpad) ==
    LET r == from_dict(sketchpad)
    IN  IF r.err # ""
        THEN [store |-> st,
              resp |-> unhandled_exception("upload_sketchpad", user,
                                           payload_ids(<<sketchpad>>), 1, r.err)]
        ELSE [store |-> data_add_sketchpad(st, user, sketchpad),
              resp |-> ok_response("upload_sketchpad", user,
                                   payload_ids(<<sketchpad>>), <<>>)]

\* An upload_portfolio that checks and persists one SketchPad after the
\* other: those before the first refused one are stored.
upload_portfolio_one_by_one(st, user, sketchpads) ==
    LET k == first_refused(sketchpads)
    IN  IF k > 0
        THEN [store |-> add_all(st, user, SubSeq(sketchpads, 1, k - 1)),
              resp |-> unhandled_exception("upload_portfolio", user,
                           payload_ids(sketchpads), k, from_dict(sketchpads[k]).err)]
        ELSE [store |-> add_all(st, user, sketchpads),
              resp |-> ok_response("upload_portfolio", user,
                                   payload_ids(sketchpads), <<>>)]

\* The SketchPads of one request have pairwise distinct identifiers, so the
\* order in which asyncio.gather completes the writes does not matter.
upload_portfolio(st, user, sketchpads) ==
    LET k == first_refused(sketchpads)
    IN  IF k > 0
        THEN [store |-> st,
              resp |-> unhandled_exception("upload_portfolio", user,
                           payload_ids(sketchpads), k, from_dict(sketchpads[k]).err)]
        ELSE [store |-> add_all(st, user, sketchpads),
              resp |-> ok_response("upload_portfolio", user,
                                   payload_ids(sketchpads), <<>>)]

\* for sketch in myspads: ... possibilities.append({...}); stops at the first
\* closest_overlap that raises.
RECURSIVE possibilities_of(_, _)
possibilities_of(portfolio, myspads) ==
    IF myspads = <<>> THEN [err |-> "", list |-> <<>>]
    ELSE LET sketch == Head(myspads)
             high_overlaps == closest_overlap(portfolio, sketch, DefaultN)
             rest == possibilities_of(portfolio, Tail(myspads))
         IN  IF high_overlaps.err # "" THEN [err |-> high_overlaps.err, list |-> <<>>]
             ELSE IF rest.err # "" THEN rest
             ELSE [err |-> "",
                   list |-> [i \in DOMAIN high_overlaps.pairs |->
                                [score |-> high_overlaps.pairs[i].score,
                                 left_sketchpad |-> to_dict(sketch),
                                 right_sketchpad |-> to_dict(high_overlaps.pairs[i].sp)]]
                            \o rest.list]

\* The rest of get_approx_best_joins, once the caller's portfolio and the
\* requested SketchPads are loaded.
best_joins(user, sketchpad_ids, portfolio, myspads) ==
    LET pk == get_approx_pk_sketchpads(portfolio)
        possibilities == possibilities_of(pk.pf, myspads)
        top == sorted_by_score(possibilities.list, TopJoins)
    IN  IF pk.err # ""
        THEN unhandled_exception("get_approx_best_joins", user, sketchpad_ids, 0, pk.err)
        ELSE IF possibilities.err # ""
        THEN unhandled_exception("get_approx_best_joins", user, sketchpad_ids, 0,
                                 possibilities.err)
        ELSE IF top.err # ""
        THEN unhandled_exception("get_approx_best_joins", user, sketchpad_ids, 0, top.err)
        ELSE ok_response("get_approx_best_joins", user, sketchpad_ids, top.top)

RECURSIVE load_any_rows(_, _)
load_any_rows(st, ids) ==
    IF ids = <<>> THEN <<>>
    ELSE IF ~IsNone(st[Head(ids)])
    THEN <<Get(from_dict(Get(st[Head(ids)]).document).sp)>> \o load_any_rows(st, Tail(ids))
    ELSE load_any_rows(st, Tail(ids))

\* A get_approx_best_joins that looks the requested identifiers up without
\* the caller's username.
get_approx_best_joins_any_owner(st, sketchpad_ids, user) ==
    best_joins(user, sketchpad_ids, get_portfolio(st, user),
               load_any_rows(st, sketchpad_ids))

get_approx_best_joins(st, sketchpad_ids, user) ==
    best_joins(user, sketchpad_ids, get_portfolio(st, user),
               get_sketchpads_by_id(st, sketchpad_ids, user))

---------------------------------------------------------------------------
(* Input domains *)

MinHash(sig) == [name |-> "MinHash", data |-> sig]
HyperLogLog(c) == [name |-> "HyperLogLog", data |-> <<c>>]
Rows(r) == [name |-> "Rows", data |-> <<r>>]

\* The sketch lists of the SketchPads given to a Portfolio: with and without a
\* MinHash sketch, distinct counts below, at and above 97% of the rows, and
\* the empty list of a SketchPad fresh from its constructor.
LibrarySketches ==
    { <<MinHash(<<0, 0>>), HyperLogLog(990), Rows(1000)>>,
      <<MinHash(<<0, 1>>), HyperLogLog(500), Rows(1000)>>,
      <<MinHash(<<1, 1>>), HyperLogLog(1000), Rows(1000)>>,
      <<HyperLogLog(97), Rows(100)>>,
      <<>> }

Context == <<>>        \* context or {}

SketchPadOf(i, sketches) ==
    [SketchPad_init([cls |-> "PandasDataframeColumn", column |-> "c"], Context)
        EXCEPT !.id = i, !.metadata = [id |-> i], !.sketches = sketches]

LibrarySketchPads == {SketchPadOf(i, sk) : i \in Ids, sk \in LibrarySketches}

\* The queries of closest_overlap: a SketchPad of the caller, not in pf.
Queries == {SketchPadOf(uuid4, sk) : sk \in LibrarySketches}

NValues == (0..2) \cup {DefaultN}

RECURSIVE SeqsUpTo(_, _)
SeqsUpTo(S, n) ==
    IF n = 0 THEN {<<>>}
    ELSE LET shorter == SeqsUpTo(S, n - 1)
         IN  shorter \cup {Append(q, x) : q \in {r \in shorter : Len(r) = n - 1}, x \in S}

\* The documents given to SketchPad.from_dict.
ReferenceDicts ==
    { [type |-> "PandasDataframeColumn", column |-> "c"],
      [type |-> "SqliteColumn", column |-> "c"],
      [type |-> "Unknown", column |-> "c"] }

DictSketches ==
    LibrarySketches \cup
    { <<MinHash(<<0, 0>>), [name |-> "Unknown", data |-> <<>>], Rows(1000)>>,
      <<[name |-> "Unknown", data |-> <<>>]>> }

Documents ==
    { [version |-> v, metadata |-> [id |-> i], reference |-> r,
       sketches |-> sk, context |-> Context] :
      v \in Versions, i \in Ids, r \in ReferenceDicts, sk \in DictSketches }

---------------------------------------------------------------------------
(* Idle values of the variables a specification does not use *)

IdleResp == [op |-> "idle"]
IdleRet == [op |-> "idle"]
IdleOut == [op |-> "idle"]
EmptyStore == [i \in Ids |-> None]
NoHistory == [i \in Ids |-> None]

ServerIdle == store = EmptyStore /\ resp = IdleResp
LibraryIdle == pf = <<>> /\ last = NoHistory /\ ret = IdleRet
FromDictIdle == data = None /\ out = IdleOut
ConcurrentIdle == inflight = <<>> /\ writer = <<>>

---------------------------------------------------------------------------
(* SpecFromDict: SketchPad.from_dict applied to a document *)

InitFromDict ==
    /\ \E d \in Documents : data = Some(d)
    /\ out = IdleOut
    /\ ServerIdle /\ LibraryIdle /\ ConcurrentIdle

CallFromDict ==
    /\ out = IdleOut
    /\ out' = [op |-> "from_dict", res |-> from_dict(Get(data))]
    /\ UNCHANGED <<data, store, resp, pf, last, ret, inflight, writer>>

NextFromDict == CallFromDict

SpecFromDict == InitFromDict /\ [][NextFromDict]_vars

---------------------------------------------------------------------------
(* SpecPortfolio: one Portfolio, built from a list and then called *)

\* last after the SketchPads of the list have been given in order.
RECURSIVE Given(_, _)
Given(sketchpads, h) ==
    IF sketchpads = <<>> THEN h
    ELSE Given(Tail(sketchpads), [h EXCEPT ![Head(sketchpads).id] = Some(Head(sketchpads))])

InitPortfolio ==
    /\ \E sketchpads \in SeqsUpTo(LibrarySketchPads, MaxUpload) :
          /\ pf = Portfolio_init(sketchpads)
          /\ last = Given(sketchpads, NoHistory)
    /\ ret = IdleRet
    /\ ServerIdle /\ FromDictIdle /\ ConcurrentIdle

AddSketchpad ==
    /\ ret = IdleRet
    /\ \E sketchpad \in LibrarySketchPads :
          /\ pf' = add_sketchpad(pf, sketchpad)
          /\ last' = [last EXCEPT ![sketchpad.id] = Some(sketchpad)]
          /\ ret' = [op |-> "add_sketchpad", arg |-> sketchpad]
    /\ UNCHANGED <<store, resp, data, out, inflight, writer>>

GetApproxPk ==
    /\ ret = IdleRet
    /\ ret' = [op |-> "get_approx_pk_sketchpads", res |-> get_approx_pk_sketchpads(pf)]
    /\ UNCHANGED <<pf, last, store, resp, data, out, inflight, writer>>

ClosestOverlap ==
    /\ ret = IdleRet
    /\ \E sketchpad \in Queries, n \in NValues :
          ret' = [op |-> "closest_overlap", query |-> sketchpad, n |-> n,
                  res |-> closest_overlap(pf, sketchpad, n)]
    /\ UNCHANGED <<pf, last, store, resp, data, out, inflight, writer>>

\* The caller takes the result and goes on.
Return ==
    /\ ret # IdleRet
    /\ ret' = IdleRet
    /\ UNCHANGED <<pf, last, store, resp, data, out, inflight, writer>>

NextPortfolio == AddSketchpad \/ GetApproxPk \/ ClosestOverlap \/ Return

SpecPortfolio == InitPortfolio /\ [][NextPortfolio]_vars

---------------------------------------------------------------------------
(* Spec: the external API, one request at a time *)

\* The documents clients upload: they pass the wire model; three are accepted
\* by SketchPad.from_dict (two approximate primary keys with a MinHash, one
\* column that is neither), the others are refused by it.
ServerSketches ==
    { <<MinHash(<<0, 0>>), HyperLogLog(990), Rows(1000)>>,
      <<MinHash(<<1, 1>>), HyperLogLog(1000), Rows(1000)>>,
      <<HyperLogLog(97), Rows(100)>> }

WireDocument(v, i, sk) ==
    [version |-> v, metadata |-> [id |-> i],
     reference |-> [type |-> "PandasDataframeColumn", column |-> "c"],
     sketches |-> sk, context |-> Context]

WireDocuments ==
    {WireDocument(Version, i, sk) : i \in Ids, sk \in ServerSketches}
    \cup {WireDocument("0.0.2", i, <<MinHash(<<0, 0>>), HyperLogLog(990), Rows(1000)>>) :
             i \in Ids}
    \cup {WireDocument(Version, i, <<[name |-> "Unknown", data |-> <<>>]>>) : i \in Ids}

HasOne(sp, name) == Cardinality({i \in DOMAIN sp.sketches : sp.sketches[i].name = name}) = 1

NoRepeat(q) == \A i, j \in DOMAIN q : q[i] = q[j] => i = j

\* The bodies of /upload_portfolio: lists of documents of distinct
\* identifiers, in any order, each accepted or of another version.
WireLists ==
    {q \in SeqsUpTo({d \in WireDocuments :
                        d.sketches = <<MinHash(<<0, 0>>), HyperLogLog(990), Rows(1000)>>},
                    MaxUpload) :
        NoRepeat(payload_ids(q))}

\* The bodies of /get_approx_best_joins: lists of distinct identifiers.
IdLists == {q \in SeqsUpTo(Ids, MaxReq) : NoRepeat(q)}

Init ==
    /\ store = EmptyStore
    /\ resp = IdleResp
    /\ LibraryIdle /\ FromDictIdle /\ ConcurrentIdle

UploadSketchpad ==
    /\ resp = IdleResp
    /\ \E user \in Users, sketchpad \in WireDocuments :
          LET r == upload_sketchpad(store, user, sketchpad)
          IN  store' = r.store /\ resp' = r.resp
    /\ UNCHANGED <<pf, last, ret, data, out, inflight, writer>>

UploadPortfolio ==
    /\ resp = IdleResp
    /\ \E user \in Users, sketchpads \in WireLists :
          LET r == upload_portfolio(store, user, sketchpads)
          IN  store' = r.store /\ resp' = r.resp
    /\ UNCHANGED <<pf, last, ret, data, out, inflight, writer>>

GetApproxBestJoins ==
    /\ resp = IdleResp
    /\ \E user \in Users, sketchpad_ids \in IdLists :
          resp' = get_approx_best_joins(store, sketchpad_ids, user)
    /\ UNCHANGED <<store, pf, last, ret, data, out, inflight, writer>>

\* The response is sent; the server takes the next request.
Respond ==
    /\ resp # IdleResp
    /\ resp' = IdleResp
    /\ UNCHANGED <<store, pf, last, ret, data, out, inflight, writer>>

Next == UploadSketchpad \/ UploadPortfolio \/ GetApproxBestJoins \/ Respond

Spec == Init /\ [][Next]_vars

---------------------------------------------------------------------------
(* Claims about the external API (Spec) *)

\* Score a is a number and at least the number b.
ScoreGe(a, b) == ~IsNone(a) /\ ~IsNone(b) /\ Get(a) >= Get(b)

Uploads == {"upload_sketchpad", "upload_portfolio"}

\* C1: when SketchPad.from_dict refuses a SketchPad of an upload request, the
\* request persists nothing: the table is the same after it as before it,
\* wherever the refused payload stands in the list.
C1_NoPartialPersistence ==
    [][(resp'.op \in Uploads /\ resp'.failedAt > 0) => store' = store]_vars

\* An /upload_portfolio whose second payload was refused has been answered,
\* and its first payload, which from_dict accepts, is not stored.
C1_Witness ==
    /\ resp.op = "upload_portfolio"
    /\ resp.failedAt = 2
    /\ IsNone(store[resp.ids[1]])

\* C2: an upload whose payload is refused by SketchPad.from_dict is answered
\* with a client error (4xx).
C2_ClientErrorOnRefusedPayload ==
    (resp.op \in Uploads /\ resp.failedAt > 0) => resp.status \in 400..499

\* The document is the one stored under the caller's username.
StoredFor(user, doc) ==
    /\ doc.metadata.id \in Ids
    /\ store[doc.metadata.id] = Some([username |-> user, document |-> doc])

OwnedIds(user, ids) == SelectSeq(ids, LAMBDA i : owned(store, i, user))

\* C4: every left_sketchpad and right_sketchpad that /get_approx_best_joins
\* returns is stored under the caller's username, and the identifiers of the
\* request that the caller does not own (another user's, or not stored) add
\* no entry and no error: the answer is the one to the request with only the
\* caller's own identifiers.
C4_TenantIsolation ==
    resp.op = "get_approx_best_joins" =>
        /\ \A i \in DOMAIN resp.body :
              /\ StoredFor(resp.user, resp.body[i].left_sketchpad)
              /\ StoredFor(resp.user, resp.body[i].right_sketchpad)
        /\ LET own == get_approx_best_joins(store, OwnedIds(resp.user, resp.ids), resp.user)
           IN  resp.status = own.status /\ resp.body = own.body /\ resp.err = own.err

\* A request naming one identifier of the caller and one of another user has
\* been answered with matches.
C4_Witness ==
    /\ resp.op = "get_approx_best_joins"
    /\ resp.status = 200
    /\ resp.body # <<>>
    /\ \E i, j \in DOMAIN resp.ids :
          /\ owned(store, resp.ids[i], resp.user)
          /\ ~IsNone(store[resp.ids[j]])
          /\ ~owned(store, resp.ids[j], resp.user)

\* The candidates of a request: for each requested SketchPad of the caller,
\* its closest_overlap matches among the caller's approximate primary keys.
PkOf(user) == get_approx_pk_sketchpads(get_portfolio(store, user)).pf
Requested(user, ids) == get_sketchpads_by_id(store, ids, user)
Candidates(user, ids) ==
    {[score |-> m.score, left_sketchpad |-> to_dict(sp), right_sketchpad |-> to_dict(m.sp)] :
        <<sp, m>> \in {<<sp, m>> \in Range(Requested(user, ids)) \X
                           UNION {Range(closest_overlap(PkOf(user), sp, 5).pairs) :
                                     sp \in Range(Requested(user, ids))} :
                         m \in Range(closest_overlap(PkOf(user), sp, 5).pairs)}}

\* C5: /get_approx_best_joins returns at most 5 entries in non-increasing
\* order of score, each right_sketchpad an approximate primary key of the
\* caller and each left_sketchpad a requested SketchPad, and they are the
\* highest-scoring candidates: no candidate left out scores higher than one
\* returned.
C5_TopFiveJoins ==
    resp.op = "get_approx_best_joins" =>
        /\ resp.status = 200
        /\ Len(resp.body) <= 5
        /\ Len(resp.body) = Min(5, Cardinality(Candidates(resp.user, resp.ids)))
        /\ \A i \in 1..(Len(resp.body) - 1) :
              ScoreGe(resp.body[i].score, resp.body[i + 1].score)
        /\ \A i \in DOMAIN resp.body :
              /\ resp.body[i].right_sketchpad \in
                     {to_dict(sp) : sp \in Range(values(PkOf(resp.user)))}
              /\ resp.body[i].left_sketchpad \in
                     {to_dict(sp) : sp \in Range(Requested(resp.user, resp.ids))}
              /\ resp.body[i] \in Candidates(resp.user, resp.ids)
        /\ \A c \in Candidates(resp.user, resp.ids) : \A i \in DOMAIN resp.body :
              c \notin Range(resp.body) => ScoreGe(resp.body[i].score, c.score)

---------------------------------------------------------------------------
(* Claims about SketchPad.from_dict (SpecFromDict) *)

\* C3: from_dict fails for every document whose version is not "0.0.1",
\* whatever else it holds, and it fails at the version check, before the
\* reference or any sketch is reconstructed; for a document of version "0.0.1"
\* the version check does not fail.
C3_VersionGate ==
    out.op = "from_dict" =>
        LET d == Get(data)
            r == out.res
        IN  /\ d.version # "0.0.1" =>
                  /\ r.err = "AssertionError"
                  /\ IsNone(r.sp)
                  /\ r.steps = <<"assert">>
                  /\ r.built = 0
            /\ d.version = "0.0.1" => r.err # "AssertionError"

\* A document of another version whose reference and sketches are both
\* unknown has been refused at the version check.
C3_Witness ==
    /\ out.op = "from_dict"
    /\ Get(data).version = "0.0.2"
    /\ Get(data).reference.type = "Unknown"
    /\ Get(data).sketches = <<[name |-> "Unknown", data |-> <<>>]>>
    /\ out.res.err = "AssertionError"

---------------------------------------------------------------------------
(* Claims about Portfolio (SpecPortfolio) *)

DataOf(sp, name) ==
    sp.sketches[CHOOSE i \in DOMAIN sp.sketches : sp.sketches[i].name = name].data
DistinctCount(sp) == DataOf(sp, "HyperLogLog")[1]
RowCount(sp) == DataOf(sp, "Rows")[1]
Counted(sp) == HasOne(sp, "HyperLogLog") /\ HasOne(sp, "Rows")

\* C6: closest_overlap(sketchpad, n) returns exactly min(n, size) pairs, in
\* non-increasing order of score, each a member of the Portfolio with its own
\* minhash_jaccard score against the query, no SketchPad left out scoring
\* higher than one returned; with distinct scores the result for n = 2 is a
\* prefix of the result for n = 5.
C6_ClosestOverlapTopN ==
    ret.op = "closest_overlap" =>
        LET r == ret.res
            q == ret.query
            returned == {r.pairs[i].sp : i \in DOMAIN r.pairs}
            two == closest_overlap(pf, q, 2)
            five == closest_overlap(pf, q, 5)
        IN  /\ r.err = ""
            /\ Len(r.pairs) = Min(ret.n, Len(pf))
            /\ \A i \in 1..(Len(r.pairs) - 1) :
                  ScoreGe(r.pairs[i].score, r.pairs[i + 1].score)
            /\ \A i \in DOMAIN r.pairs :
                  /\ \E j \in DOMAIN pf : pf[j].sp = r.pairs[i].sp
                  /\ r.pairs[i].score = minhash_jaccard(q, r.pairs[i].sp)
            /\ \A j \in DOMAIN pf : \A i \in DOMAIN r.pairs :
                  pf[j].sp \notin returned =>
                      ScoreGe(r.pairs[i].score, minhash_jaccard(q, pf[j].sp))
            /\ (\A i, j \in DOMAIN pf :
                    i # j => minhash_jaccard(q, pf[i].sp) # minhash_jaccard(q, pf[j].sp))
                  => /\ two.err = "" /\ five.err = ""
                     /\ two.pairs = SubSeq(five.pairs, 1, Len(two.pairs))

\* C7: when the query or a SketchPad of the Portfolio has no MinHash sketch,
\* minhash_jaccard gives None, and closest_overlap completes without an error
\* and returns no such pair as a match.
C7_MissingMinHashIsNonMatch ==
    ret.op = "closest_overlap" =>
        /\ \A j \in DOMAIN pf :
              (~HasOne(ret.query, "MinHash") \/ ~HasOne(pf[j].sp, "MinHash"))
                  => IsNone(minhash_jaccard(ret.query, pf[j].sp))
        /\ ret.res.err = ""
        /\ \A i \in DOMAIN ret.res.pairs : ~IsNone(ret.res.pairs[i].score)

\* C8: get_approx_pk_sketchpads returns exactly the SketchPads whose distinct
\* count exceeds 0.97 times their row count (over SketchPads that have both
\* counts); of (990, 1000), (500, 1000), (1000, 1000) exactly the first and
\* the third.
C8_ApproxPkFilter ==
    (ret.op = "get_approx_pk_sketchpads" /\ \A i \in DOMAIN pf : Counted(pf[i].sp)) =>
        LET r == ret.res
        IN  /\ r.err = ""
            /\ keys(r.pf) = {pf[i].key : i \in {j \in DOMAIN pf :
                                100 * DistinctCount(pf[j].sp) > 97 * RowCount(pf[j].sp)}}
            /\ Len(r.pf) = Cardinality(keys(r.pf))
            /\ \A j \in DOMAIN r.pf : \E i \in DOMAIN pf : pf[i] = r.pf[j]
            /\ [i \in DOMAIN pf |-> <<DistinctCount(pf[i].sp), RowCount(pf[i].sp)>>]
                    = <<(<<990, 1000>>), (<<500, 1000>>), (<<1000, 1000>>)>>
                  => [j \in DOMAIN r.pf |-> r.pf[j].key] = <<pf[1].key, pf[3].key>>

\* The Portfolio of the three SketchPads of the example has been filtered.
C8_Witness ==
    /\ ret.op = "get_approx_pk_sketchpads"
    /\ Len(pf) = 3
    /\ \A i \in DOMAIN pf : Counted(pf[i].sp)
    /\ [i \in DOMAIN pf |-> <<DistinctCount(pf[i].sp), RowCount(pf[i].sp)>>]
          = <<(<<990, 1000>>), (<<500, 1000>>), (<<1000, 1000>>)>>
    /\ Len(ret.res.pf) = 2

\* C9 as stated: a SketchPad whose distinct count is at least 97% of its row
\* count, exactly 97% included, is classified as an approximate primary key.
C9_AtLeast97 ==
    (ret.op = "get_approx_pk_sketchpads" /\ ret.res.err = "") =>
        \A i \in DOMAIN pf :
            100 * DistinctCount(pf[i].sp) >= 97 * RowCount(pf[i].sp)
                => pf[i].key \in keys(ret.res.pf)

\* C9 amended: a SketchPad whose distinct count is more than 97% of its row
\* count is classified as an approximate primary key; at exactly 97% it is
\* not.
C9_MoreThan97 ==
    (ret.op = "get_approx_pk_sketchpads" /\ ret.res.err = "") =>
        \A i \in DOMAIN pf :
            /\ 100 * DistinctCount(pf[i].sp) > 97 * RowCount(pf[i].sp)
                  => pf[i].key \in keys(ret.res.pf)
            /\ 100 * DistinctCount(pf[i].sp) = 97 * RowCount(pf[i].sp)
                  => pf[i].key \notin keys(ret.res.pf)

\* A Portfolio with a SketchPad of 97 distinct values in 100 rows and one
\* above the threshold has been filtered: the first is left out.
C9_Witness ==
    /\ ret.op = "get_approx_pk_sketchpads"
    /\ ret.res.err = ""
    /\ \E i \in DOMAIN pf :
          /\ DistinctCount(pf[i].sp) = 97 /\ RowCount(pf[i].sp) = 100
          /\ pf[i].key \notin keys(ret.res.pf)
    /\ ret.res.pf # <<>>

\* C10: the Portfolio holds exactly one entry per identifier given so far (in
\* the list it was built from or in an add_sketchpad since), and that entry is
\* the SketchPad most recently given with the identifier; so an add changes
\* no entry of another identifier.
C10_OverwriteOnDuplicateId ==
    /\ \A i, j \in DOMAIN pf : pf[i].key = pf[j].key => i = j
    /\ keys(pf) = {i \in Ids : ~IsNone(last[i])}
    /\ \A i \in DOMAIN pf : last[pf[i].key] = Some(pf[i].sp)

\* An add_sketchpad has replaced the first of several entries.
C10_Witness ==
    /\ ret.op = "add_sketchpad"
    /\ Len(pf) >= 2
    /\ pf[1].sp = ret.arg
    /\ pf[1].key = ret.arg.id

\* Every key of the dict is the id of the SketchPad stored under it, which is
\* also the id in that SketchPad's metadata, and no key occurs twice.
KeyedById(p) ==
    /\ \A i \in DOMAIN p : p[i].key = p[i].sp.id /\ p[i].sp.metadata.id = p[i].key
    /\ \A i, j \in DOMAIN p : p[i].key = p[j].key => i = j

\* C20: in the Portfolio, and in the Portfolio get_approx_pk_sketchpads
\* returns, every key k maps to a SketchPad whose id and whose metadata id
\* are k; get_approx_pk_sketchpads and closest_overlap leave the Portfolio
\* they are called on as it was.
C20_KeyedByIdentifier ==
    /\ [](KeyedById(pf) /\
          (ret.op = "get_approx_pk_sketchpads" => KeyedById(ret.res.pf)))
    /\ [][ret'.op \in {"get_approx_pk_sketchpads", "closest_overlap"} => pf' = pf]_vars

\* A Portfolio of two SketchPads, one of which is an approximate primary key.
C20_Witness ==
    /\ ret.op = "get_approx_pk_sketchpads"
    /\ ret.res.err = ""
    /\ Len(pf) = 2
    /\ Len(ret.res.pf) = 1
    /\ KeyedById(ret.res.pf)

---------------------------------------------------------------------------
(* Client calls of SketchPad and Portfolio: sketch/core.py *)

\* A pandas Series is its name and its values; a DataFrame is the sequence
\* of its columns, in the order of df.columns.
Series(name, vals) == [name |-> name, values |-> vals]

\* SketchBase.all_sketches(): the registered sketch types.
all_sketches == <<"MinHash", "HyperLogLog", "Rows">>

\* The two hash functions of the MinHash signature, on the values 0..3.
hash(k, v) == IF k = 1 THEN v % 2 ELSE (v \div 2) % 2

\* skcls.from_series(series): Rows counts the values, HyperLogLog the distinct
\* ones, MinHash keeps the least hash of each hash function.
Sketch_from_series(name, series) ==
    [name |-> name,
     data |-> IF name = "Rows" THEN <<Len(series.values)>>
              ELSE IF name = "HyperLogLog" THEN <<Cardinality(Range(series.values))>>
              ELSE [k \in 1..2 |->
                      IF \E i \in DOMAIN series.values : hash(k, series.values[i]) = 0
                      THEN 0 ELSE 1]]

\* The body of SketchPad.from_series(series, reference).
from_series(series, reference) ==
    [SketchPad_init(reference, None) EXCEPT
        !.sketches = [i \in DOMAIN all_sketches |->
                         Sketch_from_series(all_sketches[i], series)],
        !.context = <<[key |-> "column_name", value |-> series.name]>>]

\* A call SketchPad.from_series(*args): the positional arguments are bound to
\* (series, reference); a call that leaves one out raises TypeError before
\* the body runs.
call_from_series(args) ==
    IF Len(args) # 2
    THEN [err |-> "TypeError", sp |-> None]
    ELSE [err |-> "", sp |-> Some(from_series(args[1], args[2]))]

\* add_dataframe(df): for col in df.columns: sp = SketchPad.from_series(df[col]).
\* self is the dict as the call leaves it, also when the call raises.
RECURSIVE add_dataframe(_, _)
add_dataframe(self, df) ==
    IF df = <<>> THEN [err |-> "", self |-> self]
    ELSE LET sp == call_from_series(<<Head(df)>>)
         IN  IF sp.err # "" THEN [err |-> sp.err, self |-> self]
             ELSE add_dataframe(add_sketchpad(self, Get(sp.sp)), Tail(df))

\* Portfolio.from_dataframe(df): cls().add_dataframe(df)
from_dataframe(df) == add_dataframe(Portfolio_init(<<>>), df)

\* add_sqlite(path): one add_dataframe per table of the file, in name order;
\* tables is the sequence of the frames read from them.
RECURSIVE add_sqlite(_, _)
add_sqlite(self, tables) ==
    IF tables = <<>> THEN [err |-> "", self |-> self]
    ELSE LET r == add_dataframe(self, Head(tables))
         IN  IF r.err # "" THEN r ELSE add_sqlite(r.self, Tail(tables))

\* A request the client sends, and the statuses it may be answered with.
Request(method, path, json) == [method |-> method, path |-> path, json |-> json]

\* The else branch of upload: one POST per SketchPad, in the order of the
\* dict; responses are the answers the server gives to the successive
\* requests. result is the value returned (None when the loop runs out).
RECURSIVE upload_each(_, _)
upload_each(sketchpads, responses) ==
    IF sketchpads = <<>>
    THEN [requests |-> <<>>, logged |-> <<>>, result |-> None]
    ELSE LET skechpad == Head(sketchpads)
             request == Request("POST", "/upload_sketchpad", to_dict(skechpad))
             response == Head(responses)
         IN  IF response.status_code # 200
             THEN [requests |-> <<request>>,
                   logged |-> <<[id |-> skechpad.id, text |-> response.text]>>,
                   result |-> Some(FALSE)]
             ELSE LET rest == upload_each(Tail(sketchpads), Tail(responses))
                  IN  [requests |-> <<request>> \o rest.requests,
                       logged |-> rest.logged,
                       result |-> rest.result]

\* Portfolio.upload(url, apiKey, batch), answered with responses.
upload(self, batch, responses) ==
    IF batch
    THEN LET request == Request("POST", "/upload_portfolio",
                                [i \in DOMAIN self |-> to_dict(self[i].sp)])
             response == Head(responses)
         IN  [requests |-> <<request>>,
              logged |-> IF response.status_code # 200
                         THEN <<[id |-> uuid4, text |-> response.text]>> ELSE <<>>,
              result |-> None]
    ELSE upload_each(values(self), responses)

\* The names a SketchPad object answers to: the attributes __init__ sets and
\* the methods of the class.
SketchPadAttributes ==
    {"version", "sketches", "id", "metadata", "reference", "context",
     "get_sketch_by_name", "get_sketchdata_by_name", "minhash_jaccard",
     "to_dict", "from_series", "from_dict"}

\* The body of the loop of find_joinables for one match x: the two
\* from_dict calls, then the argument of print, evaluated left to right.
print_match(x) ==
    LET left_sketchpad == from_dict(x.left_sketchpad)
        right_sketchpad == from_dict(x.right_sketchpad)
    IN  IF left_sketchpad.err # "" THEN [err |-> left_sketchpad.err, line |-> None]
        ELSE IF right_sketchpad.err # "" THEN [err |-> right_sketchpad.err, line |-> None]
        ELSE IF IsNone(x.score) THEN [err |-> "TypeError", line |-> None]
        ELSE IF "reference" \notin DOMAIN Get(left_sketchpad.sp).metadata
        THEN [err |-> "KeyError", line |-> None]
        ELSE IF "reference_repr" \notin SketchPadAttributes
        THEN [err |-> "AttributeError", line |-> None]
        ELSE [err |-> "",
              line |-> Some([score |-> Get(x.score),
                             left |-> Get(left_sketchpad.sp).metadata.reference.data.column,
                             right |-> "reference_repr"])]

\* for x in resp.json(): ... print(...): the lines printed before the first
\* match that raises.
RECURSIVE print_matches(_)
print_matches(matches) ==
    IF matches = <<>> THEN [err |-> "", printed |-> <<>>]
    ELSE LET p == print_match(Head(matches))
         IN  IF p.err # "" THEN [err |-> p.err, printed |-> <<>>]
             ELSE LET rest == print_matches(Tail(matches))
                  IN  [err |-> rest.err, printed |-> <<Get(p.line)>> \o rest.printed]

\* list(self.sketchpads.keys())
list_keys(self) == [i \in DOMAIN self |-> self[i].key]

\* find_joinables after its call of upload, whose outcome is up.
query_joinables(self, up, answer) ==
    LET requests == Append(up.requests,
                           Request("GET", "/get_approx_best_joins", list_keys(self)))
    IN  IF answer.status_code # 200
        THEN [err |-> "Exception",
              message |-> <<"Error getting joinables: ", answer.text>>,
              requests |-> requests, logged |-> up.logged, printed |-> <<>>]
        ELSE LET p == print_matches(answer.json)
             IN  [err |-> p.err, message |-> <<>>,
                  requests |-> requests, logged |-> up.logged, printed |-> p.printed]

\* A find_joinables that gives up when upload reports a failed upload.
find_joinables_unless_upload_failed(self, responses, answer) ==
    LET up == upload(self, FALSE, responses)
    IN  IF up.result = Some(FALSE)
        THEN [err |-> "Exception", message |-> <<"Error uploading", "">>,
              requests |-> up.requests, logged |-> up.logged, printed |-> <<>>]
        ELSE query_joinables(self, up, answer)

\* Portfolio.find_joinables(url, apiKey): responses answer the uploads,
\* answer is the resp of the query.
find_joinables(self, responses, answer) ==
    query_joinables(self, upload(self, FALSE, responses), answer)

---------------------------------------------------------------------------
(* SpecClient: a client's Portfolio and its calls that build and send it *)

MaxColumns == 2        \* columns of a frame, tables of a file
MaxMatches == 2        \* matches in the answer to /get_approx_best_joins

ColumnSet ==
    {Series(name, v) : name \in {"a", "b"}, v \in {<<>>, <<1, 2>>, <<3, 3>>}}

Frames == SeqsUpTo(ColumnSet, MaxColumns)

\* The tables of a file: frames without columns, with one and with two.
Files ==
    SeqsUpTo({<<>>, <<Series("a", <<1, 2>>)>>,
              <<Series("a", <<1, 2>>), Series("b", <<3, 3>>)>>}, MaxColumns)

ClientSketchPads ==
    {SketchPadOf(i, sk) : i \in Ids,
                          sk \in {<<MinHash(<<0, 0>>), HyperLogLog(990), Rows(1000)>>, <<>>}}

\* What the server may answer: the status and the body.
Response(status_code, text, json) ==
    [status_code |-> status_code, text |-> text, json |-> json]

UploadResponses == {Response(200, "", <<>>), Response(500, "Internal Server Error", <<>>)}

\* The matches of an answer: documents as to_dict produces them.
MatchSet ==
    {[score |-> Some(s),
      left_sketchpad |-> to_dict(SketchPadOf(1, <<MinHash(<<0, 0>>), HyperLogLog(990), Rows(1000)>>)),
      right_sketchpad |-> to_dict(SketchPadOf(2, <<MinHash(<<0, 0>>), HyperLogLog(990), Rows(1000)>>))] :
        s \in {1, 2}}

QueryResponses ==
    {Response(200, "", json) : json \in SeqsUpTo(MatchSet, MaxMatches)}
    \cup {Response(s, "Internal Server Error", <<>>) : s \in {401, 500}}

InitClient ==
    /\ \E sketchpads \in SeqsUpTo(ClientSketchPads, MaxUpload) :
          pf = Portfolio_init(sketchpads)
    /\ last = NoHistory
    /\ ret = IdleRet
    /\ ServerIdle /\ FromDictIdle /\ ConcurrentIdle

FromSeries ==
    /\ ret = IdleRet
    /\ \E series \in ColumnSet, cls \in ReferenceTypes :
          ret' = [op |-> "from_series", series |-> series,
                  res |-> call_from_series(<<series, [cls |-> cls, column |-> series.name]>>)]
    /\ UNCHANGED <<pf, last, store, resp, data, out, inflight, writer>>

AddDataframe ==
    /\ ret = IdleRet
    /\ \E df \in Frames :
          LET r == add_dataframe(pf, df)
          IN  /\ pf' = r.self
              /\ ret' = [op |-> "add_dataframe", before |-> pf, columns |-> Len(df),
                         err |-> r.err]
    /\ UNCHANGED <<last, store, resp, data, out, inflight, writer>>

AddSqlite ==
    /\ ret = IdleRet
    /\ \E tables \in Files :
          LET r == add_sqlite(pf, tables)
          IN  /\ pf' = r.self
              /\ ret' = [op |-> "add_sqlite", before |-> pf, tables |-> tables,
                         err |-> r.err]
    /\ UNCHANGED <<last, store, resp, data, out, inflight, writer>>

Upload ==
    /\ ret = IdleRet
    /\ \E batch \in BOOLEAN :
        \E responses \in [1..(IF batch THEN 1 ELSE Len(pf)) -> UploadResponses] :
          ret' = [op |-> "upload", batch |-> batch, responses |-> responses,
                  res |-> upload(pf, batch, responses)]
    /\ UNCHANGED <<pf, last, store, resp, data, out, inflight, writer>>

FindJoinables ==
    /\ ret = IdleRet
    /\ \E responses \in [1..Len(pf) -> UploadResponses], response \in QueryResponses :
          ret' = [op |-> "find_joinables", responses |-> responses, resp |-> response,
                  res |-> find_joinables(pf, responses, response)]
    /\ UNCHANGED <<pf, last, store, resp, data, out, inflight, writer>>

NextClient == FromSeries \/ AddDataframe \/ AddSqlite \/ Upload \/ FindJoinables \/ Return

SpecClient == InitClient /\ [][NextClient]_vars

---------------------------------------------------------------------------
(* Claims about the client calls (SpecClient) *)

\* C11: add_dataframe on a frame with k columns completes without error and
\* adds k new entries to the Portfolio, one SketchPad per column.
C11_OneSketchPadPerColumn ==
    ret.op = "add_dataframe" =>
        /\ ret.err = ""
        /\ Len(pf) = Len(ret.before) + ret.columns

\* C12: in a non-batch upload no response raises, and a request to
\* /upload_sketchpad is issued for every SketchPad of the Portfolio, in
\* order, whichever of them are answered with a status other than 200.
C12_EveryUploadIssued ==
    (ret.op = "upload" /\ ~ret.batch) =>
        /\ Len(ret.res.requests) = Len(pf)
        /\ \A i \in DOMAIN pf :
              ret.res.requests[i] = Request("POST", "/upload_sketchpad", to_dict(pf[i].sp))

FailedUpload(requests, responses) ==
    \E i \in DOMAIN responses :
        /\ i < Len(requests)
        /\ responses[i].status_code # 200

\* C13: find_joinables sends its upload requests first and its query last;
\* the query is always sent, also after an upload answered with a status
\* other than 200, and carries the identifiers of all local SketchPads; the
\* call raises the failure with the body of the answer exactly when the
\* query's status is not 200, and a failed upload never makes it raise.
C13_UploadThenQuery ==
    ret.op = "find_joinables" =>
        LET requests == ret.res.requests
            n == Len(requests)
        IN  /\ n >= 1
            /\ requests[n].path = "/get_approx_best_joins"
            /\ requests[n].json = list_keys(pf)
            /\ \A i \in 1..(n - 1) : requests[i].path = "/upload_sketchpad"
            /\ (ret.resp.status_code # 200) =>
                  /\ ret.res.err = "Exception"
                  /\ ret.res.message = <<"Error getting joinables: ", ret.resp.text>>
            /\ (ret.resp.status_code = 200) => ret.res.err # "Exception"
            /\ (ret.resp.status_code = 200 /\ ret.resp.json = <<>>) => ret.res.err = ""

C13_Witness ==
    /\ ret.op = "find_joinables"
    /\ FailedUpload(ret.res.requests, ret.responses)
    /\ ret.resp.status_code = 200
    /\ ret.res.err = ""

\* C14: when the query is answered 200 with m matches, find_joinables
\* reconstructs both SketchPads of every match and prints m lines without
\* raising.
C14_OneLinePerMatch ==
    (ret.op = "find_joinables" /\ ret.resp.status_code = 200) =>
        /\ ret.res.err = ""
        /\ Len(ret.res.printed) = Len(ret.resp.json)

---------------------------------------------------------------------------
(* The web application and its mounted API: sketch/api/main.py *)

\* A request is the path it asks for, as the sequence of its segments ("/" is
\* the empty sequence), and the user its session cookie or bearer token
\* resolves to, if any.
WebRequest(path, user) == [path |-> path, user |-> user]

\* The routes of app that are pages, and those that depend on
\* auth.get_browser_user.
PageRoutes ==
    {<<>>, <<"login">>, <<"404">>, <<"references">>, <<"search">>, <<"apple">>,
     <<"cardinality_histogram">>}

UserPages == PageRoutes \ {<<"login">>, <<"404">>}

\* The routes of externalApiApp, under the mount point.
ApiRoutes ==
    {<<"api", "upload_sketchpad">>, <<"api", "upload_portfolio">>,
     <<"api", "get_approx_best_joins">>}

\* auth.get_browser_user and auth.get_token_user: the user of the request, or
\* HTTPException(401) when the request carries none.
get_browser_user(request) ==
    IF IsNone(request.user) THEN Some(401) ELSE None

get_token_user(request) ==
    IF IsNone(request.user) THEN Some(401) ELSE None

\* app.url_path_for(name="login")
url_path_for(name) == <<name>>

WebResponse(kind, status, location, template) ==
    [kind |-> kind, status |-> status, location |-> location, template |-> template]

\* A handler that always names the requested path in the redirect.
http_exception_handler_always_uri(request, exc) ==
    IF exc = 401
    THEN WebResponse("redirect", 307,
                     Some([path |-> url_path_for("login"),
                           redirect_uri |-> Some(request.path)]), None)
    ELSE IF exc = 404
    THEN WebResponse("template", 200, None, Some("page/404.html"))
    ELSE WebResponse("raise", exc, None, None)

\* @app.exception_handler(HTTPException): exc is the status of the failure.
\* A raise leaves the handler with the failure it was given.
http_exception_handler(request, exc) ==
    IF exc = 401
    THEN WebResponse("redirect", 307,
                     Some([path |-> url_path_for("login"),
                           redirect_uri |-> IF request.path = <<>> THEN None
                                            ELSE Some(request.path)]), None)
    ELSE IF exc = 404
    THEN WebResponse("template", 200, None, Some("page/404.html"))
    ELSE WebResponse("raise", exc, None, None)

\* The failure, if any, that handling the request ends with: the one of the
\* user dependency first, then the one the rest of the handling raises.
raised_by(dependency, raised) ==
    IF ~IsNone(dependency) THEN dependency ELSE raised

\* An API application that shares the exception handler of app.
externalApiApp_with_handler(request, raised) ==
    LET exc == raised_by(get_token_user(request), raised)
    IN  IF IsNone(exc) THEN WebResponse("json", 200, None, None)
        ELSE http_exception_handler(request, Get(exc))

\* externalApiApp = FastAPI(root_path="/api"): an application of its own, with
\* no exception handler registered on it; a failure is answered with its
\* status and a JSON body.
externalApiApp(request, raised) ==
    LET exc == raised_by(get_token_user(request), raised)
    IN  IF IsNone(exc) THEN WebResponse("json", 200, None, None)
        ELSE WebResponse("json", Get(exc), None, None)

\* app: a request under the mount point goes to externalApiApp, any other to
\* the routes of app, whose failures go to http_exception_handler.
app(request, raised) ==
    IF request.path # <<>> /\ Head(request.path) = "api"
    THEN externalApiApp(request, raised)
    ELSE LET exc == raised_by(IF request.path \in UserPages
                              THEN get_browser_user(request) ELSE None, raised)
         IN  IF IsNone(exc) THEN WebResponse("page", 200, None, None)
             ELSE http_exception_handler(request, Get(exc))

---------------------------------------------------------------------------
(* SpecWeb: requests to the web application *)

\* The statuses of the failures raised while a request is handled.
Statuses == {400, 401, 403, 404, 422, 500}

Optional(S) == {None} \cup {Some(x) : x \in S}

InitWeb ==
    /\ store = EmptyStore
    /\ resp = IdleResp
    /\ LibraryIdle /\ FromDictIdle /\ ConcurrentIdle

BrowserRequest ==
    /\ resp = IdleResp
    /\ \E path \in PageRoutes, user \in Optional(Users), raised \in Optional(Statuses) :
          LET request == WebRequest(path, user)
          IN  resp' = [op |-> "page", request |-> request,
                       exc |-> raised_by(IF path \in UserPages
                                         THEN get_browser_user(request) ELSE None, raised),
                       res |-> app(request, raised)]
    /\ UNCHANGED <<store, pf, last, ret, data, out, inflight, writer>>

ApiRequest ==
    /\ resp = IdleResp
    /\ \E path \in ApiRoutes, user \in Optional(Users), raised \in Optional(Statuses) :
          LET request == WebRequest(path, user)
          IN  resp' = [op |-> "api", request |-> request,
                       exc |-> raised_by(get_token_user(request), raised),
                       res |-> app(request, raised)]
    /\ UNCHANGED <<store, pf, last, ret, data, out, inflight, writer>>

NextWeb == BrowserRequest \/ ApiRequest \/ Respond

SpecWeb == InitWeb /\ [][NextWeb]_vars

---------------------------------------------------------------------------
(* Claims about the web application (SpecWeb) *)

\* C15: a 401 raised while a page request is handled is answered with a
\* redirect to /login, which carries the requested path as redirect_uri when
\* that path is not "/", and no redirect_uri when it is "/".
C15_UnauthorizedRedirectsToLogin ==
    (resp.op = "page" /\ resp.exc = Some(401)) =>
        /\ resp.res.kind = "redirect"
        /\ Get(resp.res.location).path = <<"login">>
        /\ Get(resp.res.location).redirect_uri =
              (IF resp.request.path = <<>> THEN None ELSE Some(resp.request.path))

C15_Witness ==
    /\ resp.op = "page"
    /\ resp.request.path = <<>>
    /\ IsNone(resp.request.user)
    /\ resp.res.kind = "redirect"
    /\ IsNone(Get(resp.res.location).redirect_uri)

\* C16: the handler of the top-level application renders the not-found page
\* for every failure with status 404 and raises again every failure whose
\* status is neither 401 nor 404; a failure inside the API under /api does
\* not reach it: a 401 there is answered as a 401, not as a redirect.
C16_HandlerOnTopLevelOnly ==
    /\ (resp.op = "page" /\ resp.exc = Some(404)) =>
          (resp.res.kind = "template" /\ resp.res.template = Some("page/404.html"))
    /\ (resp.op = "page" /\ ~IsNone(resp.exc) /\ Get(resp.exc) \notin {401, 404}) =>
          (resp.res.kind = "raise" /\ resp.res.status = Get(resp.exc))
    /\ (resp.op = "api" /\ ~IsNone(resp.exc)) =>
          (resp.res.kind = "json" /\ resp.res.status = Get(resp.exc))

C16_Witness ==
    /\ resp.op = "api"
    /\ resp.exc = Some(401)
    /\ resp.res.kind = "json"
    /\ resp.res.status = 401

---------------------------------------------------------------------------
(* The search page: sketch/api/main.py *)

\* A string that is searched is the sequence of its characters.
lower(ch) ==
    IF ch = "A" THEN "a" ELSE IF ch = "D" THEN "d" ELSE IF ch = "I" THEN "i" ELSE ch

\* Reference.to_searchable_string: the fields of the reference, in lower case.
to_searchable_string(reference) ==
    [k \in DOMAIN reference.column |-> lower(reference.column[k])]

\* q in s, on strings
str_contains(q, s) ==
    \E k \in 0..(Len(s) - Len(q)) : SubSeq(s, k + 1, k + Len(q)) = q

\* A search that keeps the SketchPads whose searchable string is q itself.
search_whole_string(st, user, q) ==
    IF q # <<>>
    THEN LET portfolio == get_portfolio(st, user)
             to_keep == SelectSeq(values(portfolio),
                           LAMBDA x : q = to_searchable_string(x.reference))
         IN  [template |-> "page/search.html", user |-> user, q |-> q,
              portfolio |-> Portfolio_init(to_keep), loaded |-> TRUE]
    ELSE [template |-> "page/search.html", user |-> user, q |-> q,
          portfolio |-> Portfolio_init(<<>>), loaded |-> FALSE]

\* search(request, user, q): the context the search page is rendered with;
\* loaded tells whether data.get_portfolio was called.
search(st, user, q) ==
    IF q # <<>>
    THEN LET portfolio == get_portfolio(st, user)
             to_keep == SelectSeq(values(portfolio),
                           LAMBDA x : str_contains(q, to_searchable_string(x.reference)))
         IN  [template |-> "page/search.html", user |-> user, q |-> q,
              portfolio |-> Portfolio_init(to_keep), loaded |-> TRUE]
    ELSE [template |-> "page/search.html", user |-> user, q |-> q,
          portfolio |-> Portfolio_init(<<>>), loaded |-> FALSE]

---------------------------------------------------------------------------
(* SpecSearch: GET /search over the rows users have uploaded *)

SearchRows == 5        \* rows of the table

\* The columns the stored SketchPads refer to.
SearchColumns == {<<"I", "d">>, <<"a", "i">>}

SearchQueries == {<<>>, <<"i">>, <<"i", "d">>, <<"I">>, <<"d", "i">>}

SearchDocument(i, column) ==
    [version |-> Version, metadata |-> [id |-> i],
     reference |-> [type |-> "PandasDataframeColumn", column |-> column],
     sketches |-> <<>>, context |-> Context]

\* The tables reached by uploads of the two users: each row is stored under
\* the identifier of its document.
SearchStores ==
    {[i \in 1..SearchRows |->
         IF IsNone(f[i]) THEN None
         ELSE Some([username |-> Get(f[i]).username,
                    document |-> SearchDocument(i, Get(f[i]).column)])] :
        f \in [1..SearchRows -> Optional([username : Users, column : SearchColumns])]}

InitSearch ==
    /\ store \in SearchStores
    /\ resp = IdleResp
    /\ LibraryIdle /\ FromDictIdle /\ ConcurrentIdle

Search ==
    /\ resp = IdleResp
    /\ \E user \in Users, q \in SearchQueries :
          resp' = [op |-> "search", user |-> user, q |-> q, res |-> search(store, user, q)]
    /\ UNCHANGED <<store, pf, last, ret, data, out, inflight, writer>>

NextSearch == Search \/ Respond

SpecSearch == InitSearch /\ [][NextSearch]_vars

---------------------------------------------------------------------------
(* Claims about the search page (SpecSearch) *)

\* The rows of user whose reference's searchable string contains q.
Matching(user, q) ==
    {i \in DOMAIN store :
        /\ owned(store, i, user)
        /\ str_contains(q, to_searchable_string(
                               Get(Reference_from_dict(Get(store[i]).document.reference).ref)))}

\* C17: with a non-empty q the search page is rendered with a Portfolio that
\* holds exactly the caller's SketchPads whose reference's searchable string
\* contains q; with an empty q it is rendered with an empty Portfolio and the
\* caller's portfolio is not loaded.
C17_SearchSubstringScope ==
    resp.op = "search" =>
        IF resp.q # <<>>
        THEN /\ keys(resp.res.portfolio) = Matching(resp.user, resp.q)
             /\ Len(resp.res.portfolio) = Cardinality(Matching(resp.user, resp.q))
             /\ \A i \in DOMAIN resp.res.portfolio :
                   LET e == resp.res.portfolio[i]
                   IN  to_dict(e.sp) = Get(store[e.key]).document
        ELSE resp.res.portfolio = <<>> /\ ~resp.res.loaded

\* Two of the caller's five SketchPads match.
C17_Witness ==
    /\ resp.op = "search"
    /\ \A i \in DOMAIN store : owned(store, i, resp.user)
    /\ Cardinality(DOMAIN store) = SearchRows
    /\ Cardinality(Matching(resp.user, resp.q)) = 2
    /\ Len(resp.res.portfolio) = 2

---------------------------------------------------------------------------
(* SpecConcurrent: two upload requests of one user, handled concurrently *)

\* The handlers are coroutines on one event loop: a handler runs without
\* interruption up to an await. Checking the payloads has no await in it;
\* each data.add_sketchpad is awaited, and the writes asyncio.gather starts
\* complete in any order, interleaved with those of the other request.

Slots == {1, 2}

\* The positions of the payloads a handler hands to data.add_sketchpad once
\* every payload is accepted: the one of upload_sketchpad, all of them for
\* upload_portfolio.
first_write_only(op, sketchpads) ==
    IF sketchpads = <<>> THEN {} ELSE {1}

writes_of(op, sketchpads) ==
    IF op = "upload_sketchpad" THEN {1} ELSE DOMAIN sketchpads

\* A request as it arrives.
Arrived(op, sketchpads) ==
    [op |-> op, sketchpads |-> sketchpads, pc |-> "check", pending |-> {}, status |-> 0]

\* The documents the two requests send: the same identifiers, with different
\* sketches, and one document of another version.
ConcurrentDocument(slot, i) ==
    WireDocument(Version, i,
                 IF slot = 1 THEN <<MinHash(<<0, 0>>), HyperLogLog(990), Rows(1000)>>
                 ELSE <<MinHash(<<1, 1>>), HyperLogLog(1000), Rows(1000)>>)

Ascending(q) == \A i, j \in DOMAIN q : i < j => q[i] < q[j]

\* The requests of a slot: an upload of one document, accepted or refused,
\* or of a list of documents of distinct identifiers.
ConcurrentRequests(slot) ==
    {Arrived("upload_sketchpad", <<ConcurrentDocument(slot, i)>>) : i \in Ids}
    \cup {Arrived("upload_sketchpad", <<WireDocument("0.0.2", 1, <<>>)>>)}
    \cup {Arrived("upload_portfolio", [k \in DOMAIN q |-> ConcurrentDocument(slot, q[k])]) :
             q \in {r \in SeqsUpTo(Ids, MaxUpload) : Ascending(r)}}

NoWriter == [i \in Ids |-> None]

\* The table before the two requests: empty, or with a row of an earlier
\* upload.
StoresBefore ==
    {EmptyStore,
     data_add_sketchpad(EmptyStore, "alice", WireDocument(Version, 1, <<>>))}

InitConcurrent ==
    /\ store \in StoresBefore
    /\ resp = IdleResp
    /\ inflight \in [Slots -> UNION {ConcurrentRequests(s) : s \in Slots}]
    /\ \A s \in Slots : inflight[s] \in ConcurrentRequests(s)
    /\ writer = NoWriter
    /\ LibraryIdle /\ FromDictIdle

\* for sketchpad in sketchpads: SketchPad.from_dict(sketchpad.dict())
CheckPayloads(s) ==
    /\ inflight[s].pc = "check"
    /\ inflight' = [inflight EXCEPT ![s] =
          IF first_refused(inflight[s].sketchpads) > 0
          THEN [@ EXCEPT !.pc = "done", !.status = 500]
          ELSE [@ EXCEPT !.pc = "write",
                         !.pending = writes_of(inflight[s].op,
                                               inflight[s].sketchpads)]]
    /\ UNCHANGED <<store, resp, pf, last, ret, data, out, writer>>

\* One data.add_sketchpad of the request completes.
WriteRow(s) ==
    /\ inflight[s].pc = "write"
    /\ \E k \in inflight[s].pending :
          LET sketchpad == inflight[s].sketchpads[k]
          IN  /\ store' = data_add_sketchpad(store, "alice", sketchpad)
              /\ writer' = [writer EXCEPT ![sketchpad.metadata.id] = Some(s)]
              /\ inflight' = [inflight EXCEPT ![s].pending = @ \ {k}]
    /\ UNCHANGED <<resp, pf, last, ret, data, out>>

\* return {"status": "ok"}, once every write of the request has completed.
ReturnOk(s) ==
    /\ inflight[s].pc = "write"
    /\ inflight[s].pending = {}
    /\ inflight' = [inflight EXCEPT ![s].pc = "done", ![s].status = 200]
    /\ UNCHANGED <<store, resp, pf, last, ret, data, out, writer>>

NextConcurrent == \E s \in Slots : CheckPayloads(s) \/ WriteRow(s) \/ ReturnOk(s)

SpecConcurrent == InitConcurrent /\ [][NextConcurrent]_vars

---------------------------------------------------------------------------
(* Claims about concurrent uploads (SpecConcurrent) *)

\* The documents with identifier i that the request of slot s uploads, when
\* the request is accepted.
UploadedBy(s, i) ==
    IF first_refused(inflight[s].sketchpads) > 0 THEN {}
    ELSE {d \in Range(inflight[s].sketchpads) : d.metadata.id = i}

\* C18: once two upload requests of one user have both completed, in whatever
\* order their steps were taken: an identifier that only one of them uploads
\* has its row, with that request's document; an identifier that both upload
\* has one row, which holds the whole document of the request that wrote it
\* last.
C18_ConcurrentUploads ==
    (\A s \in Slots : inflight[s].pc = "done") =>
        \A i \in Ids :
            LET both == UploadedBy(1, i) \cup UploadedBy(2, i)
            IN  both # {} =>
                  /\ ~IsNone(store[i])
                  /\ Get(store[i]).username = "alice"
                  /\ Get(store[i]).document \in both
                  /\ ~IsNone(writer[i])
                  /\ Get(store[i]).document \in UploadedBy(Get(writer[i]), i)

\* Both requests carried identifier 1, and the request of slot 1 wrote it last.
C18_Witness ==
    /\ \A s \in Slots : inflight[s].pc = "done" /\ inflight[s].status = 200
    /\ UploadedBy(1, 1) # {} /\ UploadedBy(2, 1) # {}
    /\ UploadedBy(1, 2) = {} /\ UploadedBy(2, 2) # {}
    /\ writer[1] = Some(1)
    /\ Get(store[1]).document \in UploadedBy(1, 1)

---------------------------------------------------------------------------
(* SpecRoundTrip: a SketchPad serialized with to_dict and read back *)

\* The SketchPads a program holds: made by the constructor and from_series
\* (identifier uuid4) or by from_dict (any identifier), of either reference
\* type, with and without sketches and context.
RoundTripSketchPads ==
    {[SketchPad_init([cls |-> cls, column |-> "c"], context)
         EXCEPT !.id = i, !.metadata = [id |-> i], !.sketches = sketches] :
        cls \in ReferenceTypes,
        context \in {<<>>, <<[key |-> "column_name", value |-> "c"]>>},
        i \in Ids \cup {uuid4},
        sketches \in LibrarySketches}

InitRoundTrip ==
    /\ \E sp \in RoundTripSketchPads : data = Some(sp)
    /\ out = IdleOut
    /\ ServerIdle /\ LibraryIdle /\ ConcurrentIdle

\* SketchPad.from_dict(sp.to_dict())
RoundTrip ==
    /\ out = IdleOut
    /\ out' = [op |-> "round_trip", doc |-> to_dict(Get(data)),
               res |-> from_dict(to_dict(Get(data)))]
    /\ UNCHANGED <<data, store, resp, pf, last, ret, inflight, writer>>

NextRoundTrip == RoundTrip

SpecRoundTrip == InitRoundTrip /\ [][NextRoundTrip]_vars

---------------------------------------------------------------------------
(* Claims about the round trip (SpecRoundTrip) *)

\* C19: from_dict(sp.to_dict()) returns a SketchPad with the identifier,
\* metadata, context, sketches and reference of sp, and its to_dict is the
\* to_dict of sp.
C19_RoundTrip ==
    out.op = "round_trip" =>
        /\ out.res.err = ""
        /\ LET sp == Get(data)
               back == Get(out.res.sp)
           IN  /\ back.id = sp.id
               /\ back.metadata = sp.metadata
               /\ back.context = sp.context
               /\ back.sketches = sp.sketches
               /\ back.reference = sp.reference
               /\ to_dict(back) = out.doc

C19_Witness ==
    /\ out.op = "round_trip"
    /\ out.res.err = ""
    /\ Get(data).context # <<>>
    /\ Len(Get(data).sketches) = 3
    /\ Get(out.res.sp) = Get(data)

====
